---- MODULE Spec2Model ----
(***************************************************************************)
(* Model of the BSV Extended Format converter:                             *)
(*   - toExtendedFormat (extendedFormat.js): the encoder, one action per   *)
(*     write statement, over bsv's BufferWriter primitives;                *)
(*   - POST /convert (server.js);                                          *)
(*   - publishJson and publishBatchJson (publish.js).                      *)
(*                                                                         *)
(* Representation.  A byte is a number 0..255, a buffer a sequence of      *)
(* bytes, a hex string a sequence of nibbles 0..15.  An integer that can   *)
(* exceed 2^31 (a version, an index, a satoshi value) is held as its       *)
(* magnitude: the big-endian base-256 digits without leading zeros         *)
(* (<<>> is 0, <<3,232>> is 1000, <<1,0,0,0,0>> is 2^32).  A JavaScript    *)
(* value that may be undefined is a record tagged with its typeof.         *)
(***************************************************************************)
EXTENDS Integers, Sequences, FiniteSets

VARIABLES
    tx,       \* toExtendedFormat: the bsv.Transaction argument
    utxos,    \* toExtendedFormat: the utxos argument
    writer,   \* the BufferWriter's bytes so far
    pc,       \* the statement of toExtendedFormat to run next
    i,        \* forEach index (0-based, as in the source)
    out,      \* the returned hex string (<<>> until the return)
    err,      \* the exception thrown ([kind |-> "none"] until one is)
    req,      \* POST /convert: req.body
    res,      \* POST /convert: the response sent (status 0 until one is)
    pj,       \* publishJson: the locals of one call
    pb        \* publishBatchJson: the locals of one call

encVars == <<tx, utxos, writer, pc, i, out, err>>
convertVars == <<req, res>>
publishVars == <<pj, pb>>

----------------------------------------------------------------------------
(* Bounds of the model. *)
MaxInputs == 2
MaxUtxos == 2
MaxOutputs == 1
MaxFetched == 2
MaxAttempts == 3
MaxObjects == 4

----------------------------------------------------------------------------
(* Buffers and hex strings. *)

\* A function over 1..n as a tuple (TLC indexes a tuple in constant time).
AsSeq(f) == f \o <<>>

Reverse(s) == LET n == Len(s) IN AsSeq([k \in 1..n |-> s[n + 1 - k]])

Zeros(n) == AsSeq([k \in 1..n |-> 0])

\* buf.toString("hex"): two nibbles per byte, high nibble first.
ToHex(bytes) ==
    AsSeq([k \in 1..(2 * Len(bytes)) |->
              IF k % 2 = 1 THEN bytes[(k + 1) \div 2] \div 16
                           ELSE bytes[k \div 2] % 16])

\* Buffer.from(str, "hex"): one byte per pair of nibbles; an odd trailing
\* nibble is dropped.
FromHex(hex) ==
    AsSeq([k \in 1..(Len(hex) \div 2) |-> hex[2 * k - 1] * 16 + hex[2 * k]])

\* Little-endian bytes of a small non-negative integer (buf.writeUIntLE).
IntLE(n, width) ==
    AsSeq([k \in 1..width |-> (n \div (256 ^ (k - 1))) % 256])

----------------------------------------------------------------------------
(* bsv.encoding.BufferWriter primitives used by toExtendedFormat. *)

Ok(bytes) == [ok |-> TRUE, bytes |-> bytes, kind |-> "none"]
Throw(kind) == [ok |-> FALSE, bytes |-> <<>>, kind |-> kind]

\* writer.writeUInt32LE(n): Buffer.alloc(4).writeUInt32LE(n, 0), which throws
\* a RangeError when n is above 2^32 - 1.
writeUInt32LE(n) ==
    IF Len(n) > 4 THEN Throw("RangeError")
    ELSE Ok(Reverse(Zeros(4 - Len(n)) \o n))

\* Mutant: the bytes in the order given.
writeForward(buf) == buf
\* writer.writeReverse(buf)
writeReverse(buf) == Reverse(buf)

\* new bsv.crypto.BN(v): a number below 2^53 or a decimal string gives its
\* value; bn.js asserts number < 0x20000000000000.
RECURSIVE MulAddLE(_, _, _)
MulAddLE(le, m, c) ==
    IF le = <<>>
    THEN IF c = 0 THEN <<>> ELSE <<c % 256>> \o MulAddLE(<<>>, m, c \div 256)
    ELSE LET v == le[1] * m + c
         IN <<v % 256>> \o MulAddLE(Tail(le), m, v \div 256)

RECURSIVE ParseDecimalLE(_, _, _)
ParseDecimalLE(digits, k, acc) ==
    IF k > Len(digits) THEN acc
    ELSE ParseDecimalLE(digits, k + 1, MulAddLE(acc, 10, digits[k]))

IsSafeNumber(n) == Len(n) < 7 \/ (Len(n) = 7 /\ n[1] < 32)

newBN(v) ==
    IF v.type = "number"
    THEN IF IsSafeNumber(v.v) THEN Ok(v.v) ELSE Throw("AssertionError")
    ELSE Ok(Reverse(ParseDecimalLE(v.v, 1, <<>>)))

\* bn.toBuffer({size: 8}): the natural bytes (one 00 byte for zero), padded
\* on the left up to 8; BN.trim slices from natlen - buf.length = 0, so a
\* longer value keeps all of its bytes.
BNtoBuffer(bn, size) ==
    LET buf == IF bn = <<>> THEN <<0>> ELSE bn
    IN IF Len(buf) < size THEN Zeros(size - Len(buf)) \o buf ELSE buf

\* writer.writeUInt64LEBN(bn)
writeUInt64LEBN(bn) == writeReverse(BNtoBuffer(bn, 8))

\* Mutant: the one-byte form up to and including 253.
writeVarintNumLoose(n) ==
    IF n <= 253 THEN <<n>>
    ELSE IF n < 65536 THEN <<253>> \o IntLE(n, 2)
    ELSE <<254>> \o IntLE(n, 4)
\* BufferWriter.varintBufNum(n), for the n a length can take here
\* (n < 2^31); the 0xFF branch writes n & -1 and floor(n / 2^32).
writeVarintNum(n) ==
    IF n < 253 THEN <<n>>
    ELSE IF n < 65536 THEN <<253>> \o IntLE(n, 2)
    ELSE IF n \div 65536 < 65536 THEN <<254>> \o IntLE(n, 4)
    ELSE <<255>> \o IntLE(n % 65536, 2) \o IntLE((n \div 65536) % 65536, 2)
                 \o IntLE((n \div 65536) \div 65536, 4)

\* Mutants of the marker: all zero, and EF written first.
ZeroMarkerHex == <<0, 0, 0, 0, 0, 0, 0, 0, 0, 0, 0, 0>>
LeadingMarkerHex == <<14, 15, 0, 0, 0, 0, 0, 0, 0, 0, 0, 0>>
\* "0000000000EF"
EFMarkerHex == <<0, 0, 0, 0, 0, 0, 0, 0, 0, 0, 14, 15>>

----------------------------------------------------------------------------
(* toExtendedFormat(tx, utxos), statement by statement.  A step takes the   *)
(* call's local state st = [pc, i, writer, out, err] to the next one.       *)

NoError == [kind |-> "none", index |-> -1]

Start == [pc |-> "version", i |-> 0, writer |-> <<>>, out |-> <<>>,
          err |-> NoError]

\* An exception leaves the function: nothing more is written or returned.
Thrown(st, kind, index) ==
    [st EXCEPT !.pc = "thrown", !.err = [kind |-> kind, index |-> index]]

\* The writes of one block in order, up to the first that throws.
RECURSIVE Chain(_, _, _)
Chain(w, rs, k) ==
    IF k > Len(rs) THEN [writer |-> w, kind |-> "none"]
    ELSE IF ~rs[k].ok THEN [writer |-> w, kind |-> rs[k].kind]
    ELSE Chain(w \o rs[k].bytes, rs, k + 1)

UndefinedValue == [type |-> "undefined", v |-> <<>>]
UndefinedUtxo == [type |-> "undefined", satoshis |-> UndefinedValue,
                  script |-> UndefinedValue]

\* utxos[i]: undefined past the end of the array.
UtxoAt(u, k) == IF k + 1 <= Len(u) THEN u[k + 1] ELSE UndefinedUtxo

\* Mutant: !utxo.satoshis in place of the typeof test (0 is falsy).
UtxoMissingLoose(utxo) ==
    \/ utxo.type = "undefined"
    \/ utxo.satoshis.type = "undefined"
    \/ (utxo.satoshis.type = "number" /\ utxo.satoshis.v = <<>>)
    \/ utxo.script.type = "undefined"
    \/ utxo.script.v = <<>>
\* !utxo || typeof utxo.satoshis === "undefined" || !utxo.script
UtxoMissing(utxo) ==
    \/ utxo.type = "undefined"
    \/ utxo.satoshis.type = "undefined"
    \/ utxo.script.type = "undefined"
    \/ utxo.script.v = <<>>

\* writer.writeUInt32LE(tx.version)
WriteVersionStep(t, st) ==
    LET c == Chain(st.writer, <<writeUInt32LE(t.version)>>, 1)
    IN IF c.kind = "none"
       THEN [st EXCEPT !.pc = "marker", !.writer = c.writer]
       ELSE Thrown([st EXCEPT !.writer = c.writer], c.kind, -1)

\* writer.write(Buffer.from("0000000000EF", "hex"))
WriteMarkerStep(st) ==
    [st EXCEPT !.pc = "inCounter", !.writer = @ \o FromHex(EFMarkerHex)]

\* writer.writeVarintNum(tx.inputs.length)
WriteInCounterStep(t, st) ==
    [st EXCEPT !.pc = "inputs", !.i = 0,
               !.writer = @ \o writeVarintNum(Len(t.inputs))]

\* Script.fromHex(utxo.script).toBuffer(), for scripts that parse into
\* chunks and serialize back to the same bytes.
ScriptFromHex(hex) == FromHex(hex)

\* One call of the forEach callback over tx.inputs.
InputWrites(input, utxo) ==
    LET bn == newBN(utxo.satoshis)
        scriptPubKey == ScriptFromHex(utxo.script.v)
    IN << Ok(writeReverse(input.prevTxId)),
          writeUInt32LE(input.outputIndex),
          Ok(writeVarintNum(Len(input.script)) \o input.script),
          writeUInt32LE(input.sequenceNumber),
          IF bn.ok THEN Ok(writeUInt64LEBN(bn.bytes)) ELSE bn,
          Ok(writeVarintNum(Len(scriptPubKey)) \o scriptPubKey) >>

WriteInputStep(t, u, st) ==
    IF st.i >= Len(t.inputs) THEN [st EXCEPT !.pc = "outCounter"]
    ELSE LET utxo == UtxoAt(u, st.i)
         IN IF UtxoMissing(utxo)
            THEN Thrown(st, "UTXO data missing", st.i)
            ELSE LET c == Chain(st.writer,
                                InputWrites(t.inputs[st.i + 1], utxo), 1)
                 IN IF c.kind = "none"
                    THEN [st EXCEPT !.i = @ + 1, !.writer = c.writer]
                    ELSE Thrown([st EXCEPT !.writer = c.writer], c.kind, -1)

\* writer.writeVarintNum(tx.outputs.length)
WriteOutCounterStep(t, st) ==
    [st EXCEPT !.pc = "outputs", !.i = 0,
               !.writer = @ \o writeVarintNum(Len(t.outputs))]

\* output.toBufferWriter(writer): satoshis, script length, script.
OutputWrites(output) ==
    << Ok(writeUInt64LEBN(output.satoshisBN)),
       Ok(writeVarintNum(Len(output.script)) \o output.script) >>

WriteOutputStep(t, st) ==
    IF st.i >= Len(t.outputs) THEN [st EXCEPT !.pc = "lockTime"]
    ELSE LET c == Chain(st.writer, OutputWrites(t.outputs[st.i + 1]), 1)
         IN [st EXCEPT !.i = @ + 1, !.writer = c.writer]

\* writer.writeUInt32LE(tx.nLockTime)
WriteLockTimeStep(t, st) ==
    LET c == Chain(st.writer, <<writeUInt32LE(t.nLockTime)>>, 1)
    IN IF c.kind = "none"
       THEN [st EXCEPT !.pc = "toHex", !.writer = c.writer]
       ELSE Thrown([st EXCEPT !.writer = c.writer], c.kind, -1)

\* return writer.toBuffer().toString("hex")
ReturnStep(st) == [st EXCEPT !.pc = "returned", !.out = ToHex(st.writer)]

Step(t, u, st) ==
    CASE st.pc = "version" -> WriteVersionStep(t, st)
      [] st.pc = "marker" -> WriteMarkerStep(st)
      [] st.pc = "inCounter" -> WriteInCounterStep(t, st)
      [] st.pc = "inputs" -> WriteInputStep(t, u, st)
      [] st.pc = "outCounter" -> WriteOutCounterStep(t, st)
      [] st.pc = "outputs" -> WriteOutputStep(t, st)
      [] st.pc = "lockTime" -> WriteLockTimeStep(t, st)
      [] st.pc = "toHex" -> ReturnStep(st)
      [] OTHER -> st

\* The whole call, as a caller sees it.
RECURSIVE RunFrom(_, _, _)
RunFrom(t, u, st) ==
    IF st.pc \in {"returned", "thrown"} THEN st
    ELSE RunFrom(t, u, Step(t, u, st))

toExtendedFormat(t, u) == RunFrom(t, u, Start)

----------------------------------------------------------------------------
(* The encoder as a state machine. *)

Cur == [pc |-> pc, i |-> i, writer |-> writer, out |-> out, err |-> err]

Apply(st) ==
    /\ pc' = st.pc
    /\ i' = st.i
    /\ writer' = st.writer
    /\ out' = st.out
    /\ err' = st.err
    /\ UNCHANGED <<tx, utxos>>
    /\ UNCHANGED <<convertVars, publishVars>>

WriteVersion == pc = "version" /\ Apply(WriteVersionStep(tx, Cur))
WriteMarker == pc = "marker" /\ Apply(WriteMarkerStep(Cur))
WriteInCounter == pc = "inCounter" /\ Apply(WriteInCounterStep(tx, Cur))
WriteInput == pc = "inputs" /\ Apply(WriteInputStep(tx, utxos, Cur))
WriteOutCounter == pc = "outCounter" /\ Apply(WriteOutCounterStep(tx, Cur))
WriteOutput == pc = "outputs" /\ Apply(WriteOutputStep(tx, Cur))
WriteLockTime == pc = "lockTime" /\ Apply(WriteLockTimeStep(tx, Cur))
Return == pc = "toHex" /\ Apply(ReturnStep(Cur))

NextEncode ==
    \/ WriteVersion
    \/ WriteMarker
    \/ WriteInCounter
    \/ WriteInput
    \/ WriteOutCounter
    \/ WriteOutput
    \/ WriteLockTime
    \/ Return

----------------------------------------------------------------------------
(* Inputs of the encoder. *)

Number(v) == [type |-> "number", v |-> v]
String(v) == [type |-> "string", v |-> v]
Utxo(satoshis, script) ==
    [type |-> "object", satoshis |-> satoshis, script |-> script]

SeqsUpTo(S, n) == UNION {[1..k -> S] : k \in 0..n}

TxIdCounting == AsSeq([k \in 1..32 |-> k - 1])
TxIdOnes == AsSeq([k \in 1..32 |-> 17])

\* 76a914 <20 bytes> 88ac, and a bare OP_RETURN
P2PKH ==
    <<118, 169, 20>> \o AsSeq([k \in 1..20 |-> 160 + k]) \o <<136, 172>>
OpReturn == <<106>>

InputPool ==
    { [prevTxId |-> TxIdCounting, outputIndex |-> <<>>, script |-> <<>>,
       sequenceNumber |-> <<255, 255, 255, 255>>],
      [prevTxId |-> TxIdOnes, outputIndex |-> <<1, 2>>,
       script |-> <<81, 172>>, sequenceNumber |-> <<254>>] }

OutputPool ==
    { [satoshisBN |-> <<>>, script |-> OpReturn],
      [satoshisBN |-> <<1>>, script |-> P2PKH] }

UtxoPool ==
    { UndefinedUtxo,
      Utxo(UndefinedValue, String(ToHex(P2PKH))),
      Utxo(Number(<<3, 232>>), UndefinedValue),
      Utxo(Number(<<3, 232>>), String(<<>>)),
      Utxo(Number(<<>>), String(ToHex(OpReturn))),
      Utxo(Number(<<3, 232>>), String(ToHex(P2PKH))) }

TxPool ==
    { [version |-> h[1], inputs |-> ins, outputs |-> outs,
       nLockTime |-> h[2]] :
        h \in {<<(<<1>>), (<<7, 161, 32>>)>>, <<(<<2>>), (<<>>)>>},
        ins \in SeqsUpTo(InputPool, MaxInputs),
        outs \in SeqsUpTo(OutputPool, MaxOutputs) }

NoRequest == [txHex |-> UndefinedValue,
              utxos |-> [type |-> "undefined", items |-> <<>>]]
NoResponse == [status |-> 0, extendedFormatTx |-> <<>>, error |-> "none"]

ConvertIdle == req = NoRequest /\ res = NoResponse

PublishIdle == pj = [pc |-> "idle"] /\ pb = [pc |-> "idle"]

InitEncode(txs, lists) ==
    /\ ConvertIdle
    /\ PublishIdle
    /\ tx \in txs
    /\ utxos \in lists
    /\ pc = "version"
    /\ i = 0
    /\ writer = <<>>
    /\ out = <<>>
    /\ err = NoError

Init == InitEncode(TxPool, SeqsUpTo(UtxoPool, MaxUtxos))

vars == <<tx, utxos, writer, pc, i, out, err, req, res, pj, pb>>

Spec == Init /\ [][NextEncode]_vars

\* Integers beyond their field: 2^32 in a 32-bit field; 2^53 and 2^64 as
\* numbers and 2^64 - 1 and 2^64 as decimal strings for the satoshi value.
Two32 == <<1, 0, 0, 0, 0>>
Two53 == <<32, 0, 0, 0, 0, 0, 0>>
Two64 == <<1, 0, 0, 0, 0, 0, 0, 0, 0>>
Dec1000 == <<1, 0, 0, 0>>
DecTwo64Less1 == <<1, 8, 4, 4, 6, 7, 4, 4, 0, 7, 3, 7, 0, 9, 5, 5, 1, 6, 1, 5>>
DecTwo64 == <<1, 8, 4, 4, 6, 7, 4, 4, 0, 7, 3, 7, 0, 9, 5, 5, 1, 6, 1, 6>>

OverflowInputPool ==
    { [prevTxId |-> TxIdOnes, outputIndex |-> x[1], script |-> <<81>>,
       sequenceNumber |-> x[2]] :
        x \in { <<(<<1>>), (<<255, 255, 255, 255>>)>>,
                <<Two32, (<<>>)>>,
                <<(<<>>), Two32>> } }

OverflowUtxoPool ==
    { Utxo(sat, String(ToHex(P2PKH))) :
        sat \in { Number(<<3, 232>>), Number(Two53), Number(Two64),
                  String(Dec1000), String(DecTwo64Less1), String(DecTwo64) } }

OverflowTxPool ==
    { [version |-> v, inputs |-> <<input>>, outputs |-> outs,
       nLockTime |-> lt] :
        v \in {<<2>>, Two32},
        input \in OverflowInputPool,
        outs \in SeqsUpTo(OutputPool, 1),
        lt \in {<<>>, Two32} }

InitOverflow ==
    InitEncode(OverflowTxPool, {<<u>> : u \in OverflowUtxoPool})

SpecOverflow == InitOverflow /\ [][NextEncode]_vars

\* Scripts and counts at the VarInt boundaries.
BoundaryLengths == {0, 252, 253, 65535, 65536}
BoundaryCounts == {0, 252, 253}

Filled(n, byte) == AsSeq([k \in 1..n |-> byte])

BoundaryScriptTxs(lengths) ==
    { [tx |-> [version |-> <<2>>,
               inputs |-> << [prevTxId |-> TxIdCounting,
                              outputIndex |-> <<>>,
                              script |-> Filled(a, 81),
                              sequenceNumber |-> <<255, 255, 255, 255>>] >>,
               outputs |-> << [satoshisBN |-> <<1>>,
                               script |-> Filled(c, 172)] >>,
               nLockTime |-> <<>>],
       utxos |-> << Utxo(Number(<<3, 232>>), String(ToHex(Filled(b, 82)))) >>] :
        a \in lengths, b \in lengths, c \in lengths }

BoundaryCountTxs(counts) ==
    { [tx |-> [version |-> <<2>>,
               inputs |-> AsSeq([k \in 1..a |->
                              [prevTxId |-> TxIdOnes, outputIndex |-> <<>>,
                               script |-> <<81>>,
                               sequenceNumber |-> <<>>]]),
               outputs |-> AsSeq([k \in 1..c |->
                              [satoshisBN |-> <<>>, script |-> OpReturn]]),
               nLockTime |-> <<>>],
       utxos |-> AsSeq([k \in 1..a |->
                     Utxo(Number(<<>>), String(ToHex(OpReturn)))])] :
        a \in counts, c \in counts }

InitBoundary ==
    /\ ConvertIdle
    /\ PublishIdle
    /\ \E c \in BoundaryScriptTxs(BoundaryLengths)
               \cup BoundaryCountTxs(BoundaryCounts) :
          tx = c.tx /\ utxos = c.utxos
    /\ pc = "version"
    /\ i = 0
    /\ writer = <<>>
    /\ out = <<>>
    /\ err = NoError

SpecBoundary == InitBoundary /\ [][NextEncode]_vars

----------------------------------------------------------------------------
(* The standard transaction format (the "Current Transaction format" table *)
(* of extendedFormat.js), as a parser unaware of the marker reads it, and  *)
(* as new bsv.Transaction(hex) reads it.                                   *)

\* The magnitude of little-endian bytes.
RECURSIVE StripZeros(_)
StripZeros(be) ==
    IF be # <<>> /\ be[1] = 0 THEN StripZeros(Tail(be)) ELSE be

FromLE(le) == StripZeros(Reverse(le))

Slice(b, from, n) == SubSeq(b, from, from + n - 1)

\* A VarInt at position p (1-based): its value and the next position.
ReadVarInt(b, p) ==
    IF p > Len(b) THEN [ok |-> FALSE, n |-> 0, next |-> p]
    ELSE IF b[p] < 253 THEN [ok |-> TRUE, n |-> b[p], next |-> p + 1]
    ELSE IF b[p] = 253
    THEN IF p + 2 > Len(b) THEN [ok |-> FALSE, n |-> 0, next |-> p]
         ELSE [ok |-> TRUE, n |-> b[p + 1] + 256 * b[p + 2], next |-> p + 3]
    ELSE IF b[p] = 254
    THEN IF p + 4 > Len(b) \/ b[p + 4] >= 128
         THEN [ok |-> FALSE, n |-> 0, next |-> p]
         ELSE [ok |-> TRUE,
               n |-> b[p + 1] + 256 * b[p + 2] + 65536 * b[p + 3]
                     + 16777216 * b[p + 4],
               next |-> p + 5]
    ELSE [ok |-> FALSE, n |-> 0, next |-> p]

ParseFail == [ok |-> FALSE, items |-> <<>>, next |-> 0]

RECURSIVE ReadInputs(_, _, _, _)
ReadInputs(b, p, n, acc) ==
    IF n = 0 THEN [ok |-> TRUE, items |-> acc, next |-> p]
    ELSE IF p + 35 > Len(b) THEN ParseFail
    ELSE LET l == ReadVarInt(b, p + 36)
         IN IF ~l.ok \/ l.next + l.n + 3 > Len(b) THEN ParseFail
            ELSE ReadInputs(b, l.next + l.n + 4, n - 1,
                   Append(acc,
                     [prevTxId |-> Reverse(Slice(b, p, 32)),
                      outputIndex |-> FromLE(Slice(b, p + 32, 4)),
                      script |-> Slice(b, l.next, l.n),
                      sequenceNumber |-> FromLE(Slice(b, l.next + l.n, 4))]))

RECURSIVE ReadOutputs(_, _, _, _)
ReadOutputs(b, p, n, acc) ==
    IF n = 0 THEN [ok |-> TRUE, items |-> acc, next |-> p]
    ELSE IF p + 7 > Len(b) THEN ParseFail
    ELSE LET l == ReadVarInt(b, p + 8)
         IN IF ~l.ok \/ l.next + l.n - 1 > Len(b) THEN ParseFail
            ELSE ReadOutputs(b, l.next + l.n, n - 1,
                   Append(acc,
                     [satoshisBN |-> FromLE(Slice(b, p, 8)),
                      script |-> Slice(b, l.next, l.n)]))

NoTx == [version |-> <<>>, inputs |-> <<>>, outputs |-> <<>>,
         nLockTime |-> <<>>]

\* version, in-counter, inputs, out-counter, outputs, nLockTime; bytes after
\* the lock time are not read.
ParseTransaction(b) ==
    IF Len(b) < 4 THEN [ok |-> FALSE, tx |-> NoTx]
    ELSE LET nIn == ReadVarInt(b, 5)
             ins == IF nIn.ok THEN ReadInputs(b, nIn.next, nIn.n, <<>>)
                    ELSE ParseFail
             nOut == IF ins.ok THEN ReadVarInt(b, ins.next)
                     ELSE [ok |-> FALSE, n |-> 0, next |-> 0]
             outs == IF nOut.ok THEN ReadOutputs(b, nOut.next, nOut.n, <<>>)
                     ELSE ParseFail
         IN IF ~outs.ok \/ outs.next + 3 > Len(b)
            THEN [ok |-> FALSE, tx |-> NoTx]
            ELSE [ok |-> TRUE,
                  tx |-> [version |-> FromLE(Slice(b, 1, 4)),
                          inputs |-> ins.items,
                          outputs |-> outs.items,
                          nLockTime |-> FromLE(Slice(b, outs.next, 4))]]

----------------------------------------------------------------------------
(* The layout the encoding is claimed to have, written from its           *)
(* description.                                                            *)

\* n (a magnitude) in w bytes, least significant first.
LittleEndian(n, w) ==
    AsSeq([k \in 1..w |-> IF k <= Len(n) THEN n[Len(n) + 1 - k] ELSE 0])

VarInt(n) ==
    IF n < 253 THEN <<n>>
    ELSE IF n <= 65535 THEN <<253, n % 256, n \div 256>>
    ELSE <<254, n % 256, (n \div 256) % 256, (n \div 65536) % 256,
           n \div 16777216>>

Prefixed(script) == VarInt(Len(script)) \o script

ExpectedInput(input, utxo) ==
    LET id == input.prevTxId
    IN AsSeq([k \in 1..32 |-> id[33 - k]])
       \o LittleEndian(input.outputIndex, 4)
       \o Prefixed(input.script)
       \o LittleEndian(input.sequenceNumber, 4)
       \o LittleEndian(utxo.satoshis.v, 8)
       \o Prefixed(FromHex(utxo.script.v))

ExpectedOutput(output) ==
    LittleEndian(output.satoshisBN, 8) \o Prefixed(output.script)

\* The inputs k..n-1 (0-based), then the outputs from k.
RECURSIVE ExpectedInputs(_, _, _, _)
ExpectedInputs(t, u, k, n) ==
    IF k >= n THEN <<>>
    ELSE ExpectedInput(t.inputs[k + 1], u[k + 1])
         \o ExpectedInputs(t, u, k + 1, n)

RECURSIVE ExpectedOutputs(_, _)
ExpectedOutputs(t, k) ==
    IF k >= Len(t.outputs) THEN <<>>
    ELSE ExpectedOutput(t.outputs[k + 1]) \o ExpectedOutputs(t, k + 1)

\* Everything up to, not including, input n.
ExpectedHead(t, u, n) ==
    LittleEndian(t.version, 4) \o <<0, 0, 0, 0, 0, 239>>
    \o VarInt(Len(t.inputs)) \o ExpectedInputs(t, u, 0, n)

ExpectedEncoding(t, u) ==
    ExpectedHead(t, u, Len(t.inputs))
    \o VarInt(Len(t.outputs)) \o ExpectedOutputs(t, 0)
    \o LittleEndian(t.nLockTime, 4)

IsPrefix(a, b) == Len(a) <= Len(b) /\ a = SubSeq(b, 1, Len(a))

\* A reference is incomplete: absent, no satoshi value, no or empty script.
Incomplete(utxo) ==
    \/ utxo.type = "undefined"
    \/ utxo.satoshis.type = "undefined"
    \/ utxo.script.type = "undefined"
    \/ Len(utxo.script.v) = 0

BadIndexes ==
    {k \in 0..(Len(tx.inputs) - 1) :
        k >= Len(utxos) \/ Incomplete(utxos[k + 1])}

FirstBad == CHOOSE k \in BadIndexes : \A m \in BadIndexes : k <= m

----------------------------------------------------------------------------
(* Claims about toExtendedFormat. *)

C2_Marker ==
    pc = "returned" => SubSeq(FromHex(out), 5, 10) = <<0, 0, 0, 0, 0, 239>>

C2_Witness ==
    /\ pc = "returned"
    /\ tx.version = <<1>>
    /\ Len(tx.inputs) = 2
    /\ Len(tx.outputs) = 1
    /\ tx.nLockTime # <<>>

\* C3: when some input's reference is absent, lacks a satoshi value or has
\* no or an empty locking script, the call throws the error naming the
\* smallest such index, has written nothing for that input or after it, and
\* returns nothing; a reference is not rejected for any other reason, so a
\* satoshi value of 0 is accepted.
C3_FailFast ==
    /\ BadIndexes # {} =>
          /\ pc # "returned"
          /\ out = <<>>
          /\ IsPrefix(writer, ExpectedHead(tx, utxos, FirstBad))
          /\ toExtendedFormat(tx, utxos).pc = "thrown"
    /\ pc = "thrown" =>
          /\ BadIndexes # {}
          /\ err = [kind |-> "UTXO data missing", index |-> FirstBad]
          /\ writer = ExpectedHead(tx, utxos, FirstBad)

C3_Witness ==
    /\ pc = "thrown"
    /\ Len(tx.inputs) = 2
    /\ Len(utxos) = 2
    /\ utxos[1].satoshis = Number(<<>>)
    /\ utxos[2].script = String(<<>>)
    /\ err.index = 1

\* C4: a call whose number of references differs from its number of inputs
\* never returns an encoding.
C4_CountMismatchRejected ==
    Len(utxos) # Len(tx.inputs) => pc # "returned"

\* C7: a parser of the standard format reads every returned encoding as a
\* transaction with 0 inputs, 0 outputs and the lock time 0xEF000000.
C7_LegacyReading ==
    pc = "returned" =>
        LET p == ParseTransaction(FromHex(out))
        IN /\ p.ok
           /\ p.tx.version = tx.version
           /\ Len(p.tx.inputs) = 0
           /\ Len(p.tx.outputs) = 0
           /\ p.tx.nLockTime = <<239, 0, 0, 0>>

C7_Witness ==
    /\ pc = "returned"
    /\ Len(tx.inputs) = 2
    /\ Len(tx.outputs) = 1
    /\ tx.nLockTime = <<>>
    /\ ParseTransaction(FromHex(out)).tx.nLockTime # <<>>

----------------------------------------------------------------------------
(* A reader of the Extended Format: the counts, and per input and output  *)
(* each script with the bytes of its length prefix.                        *)

RECURSIVE ReadExtendedInputs(_, _, _, _)
ReadExtendedInputs(b, p, n, acc) ==
    IF n = 0 THEN [ok |-> TRUE, items |-> acc, next |-> p]
    ELSE LET l1 == ReadVarInt(b, p + 36)
             q == l1.next + l1.n + 12
             l2 == ReadVarInt(b, q)
         IN IF ~l1.ok \/ ~l2.ok \/ l2.next + l2.n - 1 > Len(b)
            THEN ParseFail
            ELSE ReadExtendedInputs(b, l2.next + l2.n, n - 1,
                   Append(acc,
                     [scriptPrefix |-> SubSeq(b, p + 36, l1.next - 1),
                      script |-> Slice(b, l1.next, l1.n),
                      lockingPrefix |-> SubSeq(b, q, l2.next - 1),
                      lockingScript |-> Slice(b, l2.next, l2.n)]))

RECURSIVE ReadPrefixedOutputs(_, _, _, _)
ReadPrefixedOutputs(b, p, n, acc) ==
    IF n = 0 THEN [ok |-> TRUE, items |-> acc, next |-> p]
    ELSE LET l == ReadVarInt(b, p + 8)
         IN IF ~l.ok \/ l.next + l.n - 1 > Len(b) THEN ParseFail
            ELSE ReadPrefixedOutputs(b, l.next + l.n, n - 1,
                   Append(acc,
                     [scriptPrefix |-> SubSeq(b, p + 8, l.next - 1),
                      script |-> Slice(b, l.next, l.n)]))

ReadExtended(b) ==
    LET nIn == ReadVarInt(b, 11)
        ins == IF nIn.ok THEN ReadExtendedInputs(b, nIn.next, nIn.n, <<>>)
               ELSE ParseFail
        nOut == IF ins.ok THEN ReadVarInt(b, ins.next)
                ELSE [ok |-> FALSE, n |-> 0, next |-> 0]
        outs == IF nOut.ok THEN ReadPrefixedOutputs(b, nOut.next, nOut.n, <<>>)
                ELSE ParseFail
    IN [ok |-> outs.ok /\ outs.next + 3 = Len(b),
        inCounter |-> SubSeq(b, 11, nIn.next - 1),
        inputs |-> ins.items,
        outCounter |-> SubSeq(b, ins.next, nOut.next - 1),
        outputs |-> outs.items]

----------------------------------------------------------------------------
(* Claims about integer widths and length prefixes. *)

Magnitude(v) ==
    IF v.type = "number" THEN v.v ELSE Reverse(ParseDecimalLE(v.v, 1, <<>>))

OutOfRange ==
    \/ Len(tx.version) > 4
    \/ Len(tx.nLockTime) > 4
    \/ \E k \in 1..Len(tx.inputs) :
          \/ Len(tx.inputs[k].outputIndex) > 4
          \/ Len(tx.inputs[k].sequenceNumber) > 4
          \/ (k <= Len(utxos) /\ Len(Magnitude(utxos[k].satoshis)) > 8)

\* C5: a call given an integer beyond its field width (more than 32 bits for
\* version, output index, sequence number, lock time; more than 64 bits for
\* a spent satoshi value) never returns an encoding.
C5_OverflowRejected == OutOfRange => pc # "returned"

\* C6: in every returned encoding each count and each script length is
\* written as its VarInt (one byte below 0xFD, 0xFD and 2 bytes up to
\* 0xFFFF, 0xFE and 4 bytes above), and reading the prefix and then that
\* many bytes gives back the script, for lengths 0, 252, 253, 65535, 65536.
C6_LengthPrefixes ==
    pc = "returned" =>
        LET d == ReadExtended(FromHex(out))
        IN /\ d.ok
           /\ d.inCounter = VarInt(Len(tx.inputs))
           /\ d.outCounter = VarInt(Len(tx.outputs))
           /\ Len(d.inputs) = Len(tx.inputs)
           /\ Len(d.outputs) = Len(tx.outputs)
           /\ \A k \in 1..Len(tx.inputs) :
                 /\ d.inputs[k].scriptPrefix = VarInt(Len(tx.inputs[k].script))
                 /\ d.inputs[k].script = tx.inputs[k].script
                 /\ d.inputs[k].lockingPrefix
                       = VarInt(Len(utxos[k].script.v) \div 2)
                 /\ d.inputs[k].lockingScript = FromHex(utxos[k].script.v)
           /\ \A k \in 1..Len(tx.outputs) :
                 /\ d.outputs[k].scriptPrefix
                       = VarInt(Len(tx.outputs[k].script))
                 /\ d.outputs[k].script = tx.outputs[k].script

\* A returned encoding at the boundary between the one-byte and the
\* three-byte form: scripts of 253, 252 and 0 bytes.
C6_Witness ==
    /\ pc = "returned"
    /\ Len(tx.inputs) = 1
    /\ Len(tx.inputs[1].script) = 253
    /\ Len(utxos[1].script.v) = 2 * 252
    /\ Len(tx.outputs[1].script) = 0
    /\ LET d == ReadExtended(FromHex(out))
       IN /\ d.inputs[1].scriptPrefix = <<253, 253, 0>>
          /\ d.inputs[1].lockingPrefix = <<252>>
          /\ d.outputs[1].scriptPrefix = <<0>>

----------------------------------------------------------------------------
(* POST /convert (server.js). *)

EncodeIdle ==
    /\ tx = NoTx
    /\ utxos = <<>>
    /\ pc = "idle"
    /\ i = 0
    /\ writer = <<>>
    /\ out = <<>>
    /\ err = NoError

Respond(status, body, error) ==
    [status |-> status, extendedFormatTx |-> body, error |-> error]

\* !txHex || !utxos || !Array.isArray(utxos) || utxos.length === 0
BadRequest(body) ==
    \/ body.txHex.type = "undefined"
    \/ body.txHex.v = <<>>
    \/ body.utxos.type = "undefined"
    \/ body.utxos.type # "array"
    \/ Len(body.utxos.items) = 0

\* The handler of app.post('/convert'): the response it sends.
convert(body) ==
    IF BadRequest(body) THEN Respond(400, <<>>, "Invalid request")
    ELSE LET parsed == ParseTransaction(FromHex(body.txHex.v))
         IN IF ~parsed.ok THEN Respond(500, <<>>, "parse")
            ELSE IF Len(parsed.tx.inputs) # Len(body.utxos.items)
            THEN Respond(400, <<>>, "UTXO count mismatch")
            ELSE LET r == toExtendedFormat(parsed.tx, body.utxos.items)
                 IN IF r.pc = "thrown" THEN Respond(500, <<>>, r.err.kind)
                    ELSE Respond(200, r.out, "none")

Convert ==
    /\ res.status = 0
    /\ res' = convert(req)
    /\ UNCHANGED <<req, encVars, publishVars>>

NextConvert == Convert

\* The standard serialization of a transaction, as a client sends it.
RECURSIVE StandardInputs(_, _)
StandardInputs(t, k) ==
    IF k > Len(t.inputs) THEN <<>>
    ELSE LET input == t.inputs[k]
         IN Reverse(input.prevTxId)
            \o LittleEndian(input.outputIndex, 4)
            \o Prefixed(input.script)
            \o LittleEndian(input.sequenceNumber, 4)
            \o StandardInputs(t, k + 1)

StandardEncoding(t) ==
    LittleEndian(t.version, 4)
    \o VarInt(Len(t.inputs)) \o StandardInputs(t, 1)
    \o VarInt(Len(t.outputs)) \o ExpectedOutputs(t, 0)
    \o LittleEndian(t.nLockTime, 4)

RequestUtxoPool ==
    { Utxo(UndefinedValue, String(ToHex(P2PKH))),
      Utxo(Number(<<3, 232>>), UndefinedValue),
      Utxo(Number(<<>>), String(ToHex(OpReturn))),
      Utxo(Number(<<3, 232>>), String(ToHex(P2PKH))) }

RequestPool ==
    { [txHex |-> h, utxos |-> u] :
        h \in {UndefinedValue, String(<<>>), String(<<0, 2, 0, 0>>)}
              \cup {String(ToHex(StandardEncoding(t))) : t \in TxPool},
        u \in {[type |-> "undefined", items |-> <<>>],
               [type |-> "object", items |-> <<>>]}
              \cup {[type |-> "array", items |-> l] :
                      l \in SeqsUpTo(RequestUtxoPool, MaxUtxos)} }

InitConvert ==
    /\ EncodeIdle
    /\ PublishIdle
    /\ req \in RequestPool
    /\ res = NoResponse

SpecConvert == InitConvert /\ [][NextConvert]_vars

\* What the request lacks, in the words of the API document.
MissingField ==
    \/ req.txHex.type = "undefined"
    \/ req.utxos.type = "undefined"

NotAnArrayOrEmpty ==
    req.utxos.type # "array" \/ Len(req.utxos.items) = 0

ItemLacksField ==
    /\ req.utxos.type = "array"
    /\ \E k \in 1..Len(req.utxos.items) :
          \/ req.utxos.items[k].satoshis.type = "undefined"
          \/ req.utxos.items[k].script.type = "undefined"

Parsed == ParseTransaction(FromHex(req.txHex.v))

CountDiffers ==
    /\ req.txHex.type = "string"
    /\ req.utxos.type = "array"
    /\ Parsed.ok
    /\ Len(Parsed.tx.inputs) # Len(req.utxos.items)

\* C8: POST /convert answers 400 when txHex or utxos is missing, utxos is
\* not an array or is empty, and, for a txHex that parses, when an item
\* lacks satoshis or script or the number of utxos differs from the number
\* of inputs; it answers 200 only when txHex parses and every input has a
\* complete utxo (so 500 never answers a request whose only fault is a
\* missing required field).
C8_ConvertStatus ==
    res.status # 0 =>
        /\ (MissingField \/ NotAnArrayOrEmpty
               \/ (req.txHex.type = "string" /\ Parsed.ok
                     /\ (ItemLacksField \/ CountDiffers)))
              => res.status = 400
        /\ res.status = 200 =>
              /\ Parsed.ok
              /\ ~ItemLacksField
              /\ Len(Parsed.tx.inputs) = Len(req.utxos.items)

----------------------------------------------------------------------------
(* publish.js: createTxString. *)

Push(data) == <<Len(data)>> \o data

\* "1L7qHn17m2TP66yjU3XYoBYq6mv3QxkASS", "application/json", "utf8"
Tag == Filled(34, 49)
ContentType == Filled(16, 97)
Encoding == <<117, 116, 102, 56>>

\* The transaction createTxString builds: one input from the utxo, the
\* safe data output and the 1-satoshi locking output that embed the JSON
\* text, signed (a signature and a public key pushed in the input script).
builtTx(json, utxo) ==
    [version |-> <<1>>,
     inputs |-> << [prevTxId |-> utxo.txid, outputIndex |-> utxo.vout,
                    script |-> Push(Filled(71, 48)) \o Push(Filled(33, 2)),
                    sequenceNumber |-> <<255, 255, 255, 255>>] >>,
     outputs |-> << [satoshisBN |-> <<>>,
                     script |-> <<0, 106>> \o Push(Tag) \o Push(json)
                                \o Push(ContentType) \o Push(Encoding)],
                    [satoshisBN |-> <<1>>,
                     script |-> <<0, 99>> \o Push(Tag) \o <<81>>
                                \o Push(ContentType) \o <<0>> \o Push(json)
                                \o <<104, 118, 169>> \o Push(Filled(66, 48))
                                \o <<136, 172>>] >>,
     nLockTime |-> <<>>]

\* tx.id, a hash of the transaction: here the data that determine it.
TxId(json, utxo) == [json |-> json, txid |-> utxo.txid, vout |-> utxo.vout]

NoTxData == [ok |-> FALSE, txid |-> [json |-> <<>>, txid |-> <<>>,
                                     vout |-> <<>>],
             extendedTxString |-> <<>>]

\* createTxString(json, utxo): { txid, extendedTxString }, or it throws
\* when the utxo lacks what tx.from and toExtendedFormat need.
createTxString(json, utxo) ==
    IF UtxoMissing(utxo) THEN NoTxData
    ELSE LET r == toExtendedFormat(builtTx(json, utxo), <<utxo>>)
         IN IF r.pc = "thrown" THEN NoTxData
            ELSE [ok |-> TRUE, txid |-> TxId(json, utxo),
                  extendedTxString |-> r.out]

\* The utxos of the publishing address, as utxoMgr's getUtxos returns them.
PublishingUtxo(id) ==
    [type |-> "object", txid |-> Filled(32, id), vout |-> <<id>>,
     satoshis |-> Number(<<id>>), script |-> String(ToHex(P2PKH))]

UnusableUtxo(id) ==
    [PublishingUtxo(id) EXCEPT !.script = UndefinedValue]

JsonPool == {<<123, 125>>, <<123, 34, 97, 34, 58, 49, 125>>}

----------------------------------------------------------------------------
(* publish.js: publishJson(json). *)

NoResult == [success |-> FALSE, error |-> "none"]

\* Mutant: the catch block logs the error and lets the loop go on.
catchAndContinue(st) == [st EXCEPT !.pc = "loop"]
\* catch (error) { console.error(...); throw error; }
catchAndRethrow(st) == [st EXCEPT !.pc = "thrown"]

\* await getUtxos(1), and the test of what it returned.
PublishJsonFetch ==
    /\ pj.pc = "loop"
    /\ pj.fetches < MaxAttempts
    /\ \E got \in {[type |-> "rejected", items |-> <<>>],
                   [type |-> "null", items |-> <<>>]}
                  \cup {[type |-> "array", items |-> l] :
                          l \in SeqsUpTo({PublishingUtxo(1), PublishingUtxo(2),
                                          UnusableUtxo(3)}, MaxFetched)} :
          pj' = [pj EXCEPT
                   !.fetches = @ + 1,
                   !.utxos = got.items,
                   !.error = IF got.type = "rejected" THEN "getUtxos"
                             ELSE IF got.type = "null" \/ Len(got.items) = 0
                             THEN "No publishing UTXO found in DB"
                             ELSE pj.error,
                   !.pc = IF got.type = "array" /\ Len(got.items) > 0
                          THEN "create" ELSE "catch"]
    /\ UNCHANGED <<encVars, convertVars, pb>>

\* const { txid, extendedTxString } = createTxString(json, utxos[0])
PublishJsonCreate ==
    /\ pj.pc = "create"
    /\ LET txData == createTxString(pj.json, pj.utxos[1])
       IN pj' = IF txData.ok
                THEN [pj EXCEPT !.pc = "submit", !.txid = txData.txid,
                                !.extendedTxString = txData.extendedTxString]
                ELSE [pj EXCEPT !.pc = "catch", !.error = "createTxString"]
    /\ UNCHANGED <<encVars, convertVars, pb>>

\* const result = await arc.submitTransaction(extendedTxString), then
\* the test of result.success and the return.
PublishJsonSubmit ==
    /\ pj.pc = "submit"
    /\ pj.submits < MaxAttempts
    /\ \E answer \in {"success", "failure", "rejected"} :
          pj' = [pj EXCEPT
                   !.submits = @ + 1,
                   !.submitted = Append(@, pj.extendedTxString),
                   !.result = IF answer = "rejected" THEN pj.result
                              ELSE [success |-> answer = "success",
                                    error |-> IF answer = "success"
                                              THEN "none" ELSE "arc"],
                   !.error = IF answer = "success" THEN pj.error
                             ELSE IF answer = "failure"
                             THEN "Transaction broadcast error"
                             ELSE "submitTransaction",
                   !.returned = IF answer = "success" THEN <<pj.txid>>
                                ELSE pj.returned,
                   !.pc = IF answer = "success" THEN "returned" ELSE "catch"]
    /\ UNCHANGED <<encVars, convertVars, pb>>

PublishJsonCatch ==
    /\ pj.pc = "catch"
    /\ pj' = catchAndRethrow(pj)
    /\ UNCHANGED <<encVars, convertVars, pb>>

NextPublishJson ==
    \/ PublishJsonFetch
    \/ PublishJsonCreate
    \/ PublishJsonSubmit
    \/ PublishJsonCatch

InitPublishJson ==
    /\ EncodeIdle
    /\ ConvertIdle
    /\ pb = [pc |-> "idle"]
    /\ \E json \in JsonPool :
          pj = [pc |-> "loop", json |-> json, utxos |-> <<>>,
                txid |-> NoTxData.txid, extendedTxString |-> <<>>,
                result |-> NoResult, returned |-> <<>>, error |-> "none",
                fetches |-> 0, submits |-> 0, submitted |-> <<>>]

SpecPublishJson == InitPublishJson /\ [][NextPublishJson]_vars

\* C10: a call of publishJson makes one attempt: it fetches UTXOs at most
\* once and submits at most one transaction, the loop is never entered a
\* second time, a return gives the txid of the one transaction submitted
\* with success, and every failure ends the call with the error thrown.
C10_SingleAttempt ==
    /\ pj.fetches <= 1
    /\ pj.submits <= 1
    /\ pj.pc = "loop" => pj.fetches = 0
    /\ pj.pc \in {"catch", "thrown"} =>
          pj.error # "none" /\ pj.returned = <<>>
    /\ pj.pc = "returned" =>
          /\ pj.result.success
          /\ pj.error = "none"
          /\ pj.fetches = 1 /\ pj.submits = 1
          /\ pj.returned = <<TxId(pj.json, pj.utxos[1])>>
          /\ pj.submitted
               = <<toExtendedFormat(builtTx(pj.json, pj.utxos[1]),
                                    <<pj.utxos[1]>>).out>>

C10_Witness ==
    /\ pj.pc = "thrown"
    /\ pj.error = "Transaction broadcast error"
    /\ pj.fetches = 1
    /\ pj.submits = 1

----------------------------------------------------------------------------
(* JavaScript numbers and strings of decimal digits, for the loop index of *)
(* publishBatchJson: + concatenates as soon as one operand is a string.    *)

Num(n) == [type |-> "number", n |-> n, s |-> <<>>]
Str(s) == [type |-> "string", n |-> 0, s |-> s]

RECURSIVE Digits(_)
Digits(n) == IF n < 10 THEN <<n>> ELSE Append(Digits(n \div 10), n % 10)

RECURSIVE DecimalValue(_, _, _)
DecimalValue(s, k, acc) ==
    IF k > Len(s) THEN acc ELSE DecimalValue(s, k + 1, 10 * acc + s[k])

ToString(v) == IF v.type = "string" THEN v.s ELSE Digits(v.n)
ToNumber(v) == IF v.type = "number" THEN v.n ELSE DecimalValue(v.s, 1, 0)

\* a + b
Plus(a, b) ==
    IF a.type = "number" /\ b.type = "number" THEN Num(a.n + b.n)
    ELSE Str(ToString(a) \o ToString(b))

Min(a, b) == IF a < b THEN a ELSE b

\* array.slice(start, end), for start, end >= 0
slice(array, start, end) ==
    SubSeq(array, Min(ToNumber(start), Len(array)) + 1,
           Min(ToNumber(end), Len(array)))

----------------------------------------------------------------------------
(* publish.js: publishBatchJson(arrayJsonObjects, full). *)

DefaultBatchSize == 1000

\* process.env.BATCH_SIZE || 1000: an environment variable is a string.
batchSizeOf(env) ==
    IF env.type = "undefined" \/ env.s = <<>> THEN Num(DefaultBatchSize)
    ELSE env

PbThrow(st, error) == [st EXCEPT !.pc = "thrown", !.error = error]

\* The argument test, batchSize, await getUtxos(n) and the test of it.
PublishBatchStart ==
    /\ pb.pc = "start"
    /\ \E got \in {[type |-> "rejected", items |-> <<>>]}
                  \cup {[type |-> "array",
                         items |-> AsSeq([k \in 1..m |-> PublishingUtxo(k)])] :
                          m \in 0..(MaxObjects + 1)}
                  \cup {[type |-> "array",
                         items |-> AsSeq([k \in 1..m |->
                                      IF k = m THEN UnusableUtxo(k)
                                      ELSE PublishingUtxo(k)])] :
                          m \in 1..MaxObjects} :
          pb' = IF pb.arrayJsonObjects.type # "array"
                   \/ Len(pb.arrayJsonObjects.items) = 0
                THEN PbThrow(pb, "Invalid or empty array")
                ELSE IF got.type = "rejected"
                THEN PbThrow([pb EXCEPT !.batchSize = batchSizeOf(pb.env)],
                             "getUtxos")
                ELSE IF Len(got.items) < Len(pb.arrayJsonObjects.items)
                THEN PbThrow([pb EXCEPT !.batchSize = batchSizeOf(pb.env),
                                        !.utxos = got.items],
                             "Not enough UTXOs for the batch")
                ELSE [pb EXCEPT !.batchSize = batchSizeOf(pb.env),
                                !.utxos = got.items,
                                !.i = Num(0),
                                !.pc = "for"]
    /\ UNCHANGED <<encVars, convertVars, pj>>

\* for (...; i < arrayJsonObjects.length; ...): the two slices.
PublishBatchChunk ==
    /\ pb.pc = "for"
    /\ pb' = IF ToNumber(pb.i) < Len(pb.arrayJsonObjects.items)
             THEN [pb EXCEPT
                     !.chunk = slice(pb.arrayJsonObjects.items, pb.i,
                                     Plus(pb.i, pb.batchSize)),
                     !.utxoChunk = slice(pb.utxos, pb.i,
                                         Plus(pb.i, pb.batchSize)),
                     !.transactions = <<>>,
                     !.j = 0,
                     !.pc = "create"]
             ELSE [pb EXCEPT !.pc = "return"]
    /\ UNCHANGED <<encVars, convertVars, pj>>

\* for (let j = 0; j < chunk.length; j++): createTxString, or rethrow.
PublishBatchCreate ==
    /\ pb.pc = "create"
    /\ pb' = IF pb.j >= Len(pb.chunk) THEN [pb EXCEPT !.pc = "submit"]
             ELSE LET txData == createTxString(pb.chunk[pb.j + 1],
                                               pb.utxoChunk[pb.j + 1])
                  IN IF txData.ok
                     THEN [pb EXCEPT !.transactions = Append(@, txData),
                                     !.j = @ + 1]
                     ELSE PbThrow(pb, "createTxString")
    /\ UNCHANGED <<encVars, convertVars, pj>>

\* await arc.submitBulkTransactions(txStrings), results.push, i += batchSize
PublishBatchSubmit ==
    /\ pb.pc = "submit"
    /\ \E answer \in {"published", "rejected"} :
          pb' = IF answer = "rejected"
                THEN PbThrow(pb, "submitBulkTransactions")
                ELSE [pb EXCEPT
                        !.results = Append(@,
                            [batchResult |-> Len(pb.transactions),
                             txids |-> AsSeq([k \in 1..Len(pb.transactions)
                                          |-> pb.transactions[k].txid])]),
                        !.chunk = <<>>,
                        !.utxoChunk = <<>>,
                        !.transactions = <<>>,
                        !.j = 0,
                        !.i = Plus(pb.i, pb.batchSize),
                        !.pc = "for"]
    /\ UNCHANGED <<encVars, convertVars, pj>>

RECURSIVE AllTxids(_, _)
AllTxids(results, k) ==
    IF k > Len(results) THEN <<>>
    ELSE results[k].txids \o AllTxids(results, k + 1)

\* txids.push(...result.txids); return full ? batchResults : txids
PublishBatchReturn ==
    /\ pb.pc = "return"
    /\ pb' = [pb EXCEPT
                !.pc = "returned",
                !.returned =
                    IF pb.full
                    THEN AsSeq([k \in 1..Len(pb.results) |->
                                   pb.results[k].batchResult])
                    ELSE AllTxids(pb.results, 1)]
    /\ UNCHANGED <<encVars, convertVars, pj>>

NextPublishBatch ==
    \/ PublishBatchStart
    \/ PublishBatchChunk
    \/ PublishBatchCreate
    \/ PublishBatchSubmit
    \/ PublishBatchReturn

InitPublishBatch ==
    /\ EncodeIdle
    /\ ConvertIdle
    /\ pj = [pc |-> "idle"]
    /\ \E objects \in {[type |-> "object", items |-> <<>>]}
                      \cup {[type |-> "array", items |-> l] :
                              l \in SeqsUpTo(JsonPool, MaxObjects)},
          env \in {[type |-> "undefined", n |-> 0, s |-> <<>>],
                   Str(<<1>>), Str(<<2>>)},
          full \in BOOLEAN :
          pb = [pc |-> "start", arrayJsonObjects |-> objects, full |-> full,
                env |-> env, batchSize |-> Num(0), utxos |-> <<>>,
                i |-> Num(0), chunk |-> <<>>, utxoChunk |-> <<>>,
                transactions |-> <<>>, j |-> 0, results |-> <<>>,
                returned |-> <<>>, error |-> "none"]

SpecPublishBatch == InitPublishBatch /\ [][NextPublishBatch]_vars

\* What the call has built so far: the submitted chunks, then the
\* transactions of the chunk in hand.
BuiltTxids ==
    AllTxids(pb.results, 1)
    \o AsSeq([k \in 1..Len(pb.transactions) |-> pb.transactions[k].txid])

\* C9: the transaction of object k is built from UTXO k and no UTXO serves
\* two transactions; every submitted chunk holds at most batchSize
\* transactions; the chunks are consecutive, so each object is in exactly
\* one; with every submission a success the call returns the n txids in
\* the order of the objects.  batchSize is 1000 or the BATCH_SIZE text.
C9_Batching ==
    pb.pc # "idle" =>
        /\ \A c \in 1..Len(pb.results) :
              Len(pb.results[c].txids) <= ToNumber(pb.batchSize)
        /\ pb.pc \notin {"start", "thrown"} =>
              /\ Len(BuiltTxids) <= Len(pb.arrayJsonObjects.items)
              /\ \A k \in 1..Len(BuiltTxids) :
                    BuiltTxids[k] = TxId(pb.arrayJsonObjects.items[k],
                                         pb.utxos[k])
              /\ \A k, m \in 1..Len(BuiltTxids) :
                    k # m => BuiltTxids[k].txid # BuiltTxids[m].txid
        /\ pb.pc = "returned" =>
              /\ Len(AllTxids(pb.results, 1)) = Len(pb.arrayJsonObjects.items)
              /\ ~pb.full => pb.returned = AllTxids(pb.results, 1)

\* The same with the bound on the chunks left out: the pairing, the
\* coverage and the order, which hold for every batchSize.
C9_PairingAndOrder ==
    pb.pc # "idle" =>
        /\ pb.pc \notin {"start", "thrown"} =>
              /\ Len(BuiltTxids) <= Len(pb.arrayJsonObjects.items)
              /\ \A k \in 1..Len(BuiltTxids) :
                    BuiltTxids[k] = TxId(pb.arrayJsonObjects.items[k],
                                         pb.utxos[k])
              /\ \A k, m \in 1..Len(BuiltTxids) :
                    k # m => BuiltTxids[k].txid # BuiltTxids[m].txid
        /\ pb.pc = "returned" =>
              /\ Len(AllTxids(pb.results, 1)) = Len(pb.arrayJsonObjects.items)
              /\ ~pb.full => pb.returned = AllTxids(pb.results, 1)

====
